---- MODULE Spec2Model ----
(***************************************************************************)
(* The two report pipelines of bridgeroni's analyze scripts                *)
(* (analyze/stargate-stats.py and analyze/across-stats.py): the query      *)
(* client run_query, and the sections of main() that aggregate routes,     *)
(* match GUIDs and compute descriptive statistics.                         *)
(*                                                                         *)
(* Spec    is main() of either script, one action per report section, the  *)
(*         outcome and the rows of every query chosen by the environment.  *)
(* SpecFn  applies the aggregation, ranking, matching and statistics code  *)
(*         of main() to every input stream up to MaxLen records.           *)
(***************************************************************************)
EXTENDS Integers, Sequences, FiniteSets, TLC

VARIABLES
    pipeline,       \* which script runs: "stargate" or "across" ("fn" in SpecFn)
    pc,             \* position in main(): the section about to run
    et,             \* index into event_types of the raw-count loop
    out,            \* stdout: the lines printed so far, as <<section, kind>>
    qlog,           \* the queries issued so far, in order, with their outcome
    matched_msgs,   \* local matched_msgs of main()
    loc,            \* the GUID section's locals; SpecFn: the values the code computed
    calls,          \* the statistics functions called, with the length of their argument
    faults,         \* how many queries have failed so far
    arg             \* SpecFn: the input stream the code is applied to

vars == <<pipeline, pc, et, out, qlog, matched_msgs, loc, calls, faults, arg>>

-----------------------------------------------------------------------------
(* Bounds *)

\* SpecFn: longest stream handed to the aggregation and statistics code
MaxLen == 4
\* SpecFn: longest sent and received stream handed to the GUID matching code
MaxStream == 3
\* most rows a query of the pipeline returns
MaxRows == 2
\* most queries that fail in one run of the pipeline
MaxFaults == 1
\* significant bits of the model's floats: a Python float carries 53, so it
\* holds every integer up to 2^53 and rounds the odd ones above; the model
\* scales this down so that the rounding shows on small numbers
Mantissa == 4

-----------------------------------------------------------------------------
(* JSON field values: a number, null (an absent value) or a non-numeric    *)
(* string                                                                  *)

Num(n) == [t |-> "num", v |-> n]
NoneV == [t |-> "none", v |-> 0]
Bad == [t |-> "bad", v |-> 0]

\* int(x) succeeds on a number (or numeric string) only: int(None) is a
\* TypeError and int("abc") a ValueError
IntRaises(x) == x.t # "num"
IntOf(x) == x.v

SeqsUpTo(S, n) == UNION {[1..k -> S] : k \in 0..n}

-----------------------------------------------------------------------------
(* Strings are sequences of character codes *)

RECURSIVE Digits(_)
Digits(n) == IF n < 10 THEN <<48 + n>> ELSE Digits(n \div 10) \o <<48 + (n % 10)>>

\* str(x) of a field value: decimal digits of a number, "None" of None, and
\* a string is itself ("x" stands for every non-numeric string)
Str(x) == IF x.t = "num" THEN Digits(x.v)
          ELSE IF x.t = "none" THEN <<78, 111, 110, 101>>
          ELSE <<120>>

RouteKeyNoArrow(src, dst) == Str(src) \o Str(dst)

\* f"{src}->{dst}"
RouteKey(src, dst) == Str(src) \o <<45, 62>> \o Str(dst)

-----------------------------------------------------------------------------
(* Statistics: a number is a fraction [num, den] with den > 0 *)

Frac(n, d) == [num |-> n, den |-> d]
FracLeq(a, b) == a.num * b.den <= b.num * a.den
FracEq(a, b) == a.num * b.den = b.num * a.den

\* n / d rounded to the nearest integer, ties to even
NearestEven(n, d) ==
    LET f == n \div d
        r == n % d
    IN IF 2 * r > d \/ (2 * r = d /\ f % 2 = 1) THEN f + 1 ELSE f

\* float(n / d) for n >= 0: the nearest number m * 2^e whose m has Mantissa
\* bits, ties to even
RECURSIVE Float(_, _)
Float(n, d) ==
    IF n = 0 THEN Frac(0, 1)
    ELSE IF n >= (2 ^ Mantissa) * d
         THEN LET r == Float(n, 2 * d) IN Frac(2 * r.num, r.den)
    ELSE IF n < (2 ^ (Mantissa - 1)) * d
         THEN LET r == Float(2 * n, d) IN Frac(r.num, 2 * r.den)
    ELSE Frac(NearestEven(n, d), 1)

RECURSIVE Sum(_)
Sum(V) == IF V = <<>> THEN 0 ELSE Head(V) + Sum(Tail(V))

RECURSIVE Min(_)
Min(V) == IF Len(V) = 1 THEN V[1]
          ELSE LET m == Min(Tail(V)) IN IF Head(V) <= m THEN Head(V) ELSE m

RECURSIVE Max(_)
Max(V) == IF Len(V) = 1 THEN V[1]
          ELSE LET m == Max(Tail(V)) IN IF Head(V) >= m THEN Head(V) ELSE m

RECURSIVE InsertAsc(_, _)
InsertAsc(s, x) == IF s = <<>> THEN <<x>>
                   ELSE IF x < Head(s) THEN <<x>> \o s
                   ELSE <<Head(s)>> \o InsertAsc(Tail(s), x)

RECURSIVE SortFrom(_, _)
SortFrom(acc, V) == IF V = <<>> THEN acc ELSE SortFrom(InsertAsc(acc, Head(V)), Tail(V))

\* sorted(data) inside statistics.median
Sorted(V) == SortFrom(<<>>, V)

\* statistics.mean(data) of integers: the exact total / n, returned as an
\* int when it is whole and converted to float otherwise
Mean(V) == LET total == Sum(V)
               n == Len(V)
           IN IF total % n = 0 THEN Frac(total \div n, 1) ELSE Float(total, n)

\* statistics.median(data): data[n//2] of the sorted data for odd n, else
\* (data[n//2 - 1] + data[n//2]) / 2 with 0-based indices, a true division
\* whose result is a float
Median(V) == LET data == Sorted(V)
                 n == Len(V)
             IN IF n % 2 = 1 THEN Frac(data[(n \div 2) + 1], 1)
                ELSE Float(data[n \div 2] + data[(n \div 2) + 1], 2)

RECURSIVE SumSq(_)
SumSq(V) == IF V = <<>> THEN 0 ELSE Head(V) * Head(V) + SumSq(Tail(V))

\* statistics.stdev(data) is the square root of the sample variance
\* (n * sum(x^2) - sum(x)^2) / (n * (n - 1)); the variance stands for it
Variance(V) == LET n == Len(V) IN Frac(n * SumSq(V) - Sum(V) * Sum(V), n * (n - 1))

-----------------------------------------------------------------------------
(* Python dicts keep insertion order: a sequence of entries with unique keys *)

HasKey(d, k) == \E i \in DOMAIN d : d[i].key = k
IndexOf(d, k) == CHOOSE i \in DOMAIN d : d[i].key = k
Keys(d) == {d[i].key : i \in DOMAIN d}

\* [int(r[field]) for r in records if r[field] is not None], given the
\* sequence F of the field's values
CoerceRaises(F) == \E i \in DOMAIN F : F[i].t # "none" /\ IntRaises(F[i])
Coerce(F) == LET kept == SelectSeq(F, LAMBDA x : x.t # "none")
             IN [i \in DOMAIN kept |-> IntOf(kept[i])]

-----------------------------------------------------------------------------
(* Route aggregation and ranking *)

\* one pass of the loop body of stargate-stats section 4
AddRoute(d, event) ==
    LET key == RouteKey(event.chainId, event.dstEid)
        d1 == IF HasKey(d, key) THEN d
              ELSE Append(d, [key |-> key, count |-> 0, volume |-> 0])
        i == IndexOf(d1, key)
    IN [d1 EXCEPT ![i].count = @ + 1, ![i].volume = @ + IntOf(event.amountSentLD)]

RECURSIVE AggregateFrom(_, _)
AggregateFrom(d, events) ==
    IF events = <<>> THEN d ELSE AggregateFrom(AddRoute(d, Head(events)), Tail(events))

\* eid_combos after the loop over sent_events
AggregateRoutes(events) == AggregateFrom(<<>>, events)

\* whether int(event["amountSentLD"]) raises inside the loop
AggregateRaises(events) == \E i \in DOMAIN events : IntRaises(events[i].amountSentLD)

\* one pass of the loop body of across-stats section 3
AddCombo(d, msg) ==
    LET key == RouteKey(msg.chainIdOutbound, msg.chainIdInbound)
    IN IF HasKey(d, key) THEN [d EXCEPT ![IndexOf(d, key)].count = @ + 1]
       ELSE Append(d, [key |-> key, count |-> 1])

RECURSIVE CountFrom(_, _)
CountFrom(d, msgs) ==
    IF msgs = <<>> THEN d ELSE CountFrom(AddCombo(d, Head(msgs)), Tail(msgs))

\* combo_counts after the loop over matched_msgs
CountCombos(msgs) == CountFrom(<<>>, msgs)

RECURSIVE InsertUnstable(_, _)
InsertUnstable(s, e) == IF s = <<>> THEN <<e>>
                        ELSE IF Head(s).count <= e.count THEN <<e>> \o s
                        ELSE <<Head(s)>> \o InsertUnstable(Tail(s), e)

\* sorted() is stable: an entry goes after every entry whose key -count is
\* not larger than its own
RECURSIVE InsertByCount(_, _)
InsertByCount(s, e) == IF s = <<>> THEN <<e>>
                       ELSE IF Head(s).count < e.count THEN <<e>> \o s
                       ELSE <<Head(s)>> \o InsertByCount(Tail(s), e)

RECURSIVE RankFrom(_, _)
RankFrom(acc, d) == IF d = <<>> THEN acc ELSE RankFrom(InsertByCount(acc, Head(d)), Tail(d))

\* sorted(combos.items(), key=lambda x: -count)
Ranking(d) == RankFrom(<<>>, d)

-----------------------------------------------------------------------------
(* GUID matching *)

DictSetFirstWins(d, k, v) ==
    IF HasKey(d, k) THEN d ELSE Append(d, [key |-> k, val |-> v])

\* d[k] = v
DictSet(d, k, v) ==
    IF HasKey(d, k) THEN [d EXCEPT ![IndexOf(d, k)].val = v]
    ELSE Append(d, [key |-> k, val |-> v])

RECURSIVE SentFrom(_, _)
SentFrom(d, events) ==
    IF events = <<>> THEN d
    ELSE SentFrom(DictSet(d, Head(events).guid,
                          RouteKey(Head(events).chainId, Head(events).dstEid)),
                  Tail(events))

\* {event["guid"]: f"{event['chainId']}->{event['dstEid']}" for event in ...}
SentGuids(events) == SentFrom(<<>>, events)

RECURSIVE ReceivedFrom(_, _)
ReceivedFrom(d, events) ==
    IF events = <<>> THEN d
    ELSE ReceivedFrom(DictSet(d, Head(events).guid,
                              RouteKey(Head(events).srcEid, Head(events).chainId)),
                      Tail(events))

\* {event["guid"]: f"{event['srcEid']}->{event['chainId']}" for event in ...}
ReceivedGuids(events) == ReceivedFrom(<<>>, events)

RateDenominatorUnguarded(n) == n

\* max(len(sent_guids), 1)
RateDenominator(n) == IF n > 1 THEN n ELSE 1

\* the four values the GUID section prints; the rate is kept exact: the
\* counts are far below 2^53, 0 and 100 are floats, and rounding is monotone
MatchSummary(sent_guids, received_guids) ==
    LET matched_guids == Keys(sent_guids) \cap Keys(received_guids)
    IN [sec |-> "match",
        sent_guids |-> sent_guids,
        received_guids |-> received_guids,
        sentCount |-> Len(sent_guids),
        receivedCount |-> Len(received_guids),
        matchedCount |-> Cardinality(matched_guids),
        matchRate |-> Frac(Cardinality(matched_guids) * 100,
                           RateDenominator(Len(sent_guids)))]

-----------------------------------------------------------------------------
(* The statistics blocks *)

StdevGuardAny(n) == n > 0

\* len(latencies) > 1
StdevGuard(n) == n > 1

\* the latency block: what it prints for the list of latencies
LatencyStats(latencies) ==
    IF latencies # <<>>
    THEN [sec |-> "latency",
          count |-> Len(latencies),
          mean |-> <<Mean(latencies)>>,
          median |-> <<Median(latencies)>>,
          min |-> <<Min(latencies)>>,
          max |-> <<Max(latencies)>>,
          stdev |-> IF StdevGuard(Len(latencies)) THEN <<Variance(latencies)>> ELSE <<>>]
    ELSE [sec |-> "latency", count |-> 0, mean |-> <<>>, median |-> <<>>,
          min |-> <<>>, max |-> <<>>, stdev |-> <<>>]

LatencyCalls(latencies) ==
    IF latencies # <<>>
    THEN {<<f, Len(latencies)>> : f \in {"mean", "median", "min", "max"}}
         \cup (IF StdevGuard(Len(latencies)) THEN {<<"stdev", Len(latencies)>>} ELSE {})
    ELSE {}

LatencyLines(latencies) ==
    IF latencies # <<>>
    THEN << <<"latency", "stats">>,
            <<"latency", IF StdevGuard(Len(latencies)) THEN "stdev" ELSE "na">> >>
    ELSE << <<"latency", "nodata">> >>

\* one volume block (outbound or inbound): nothing when the list is empty
VolumeStats(amounts) ==
    IF amounts # <<>>
    THEN <<[count |-> Len(amounts), total |-> Sum(amounts),
            mean |-> Mean(amounts), median |-> Median(amounts)]>>
    ELSE <<>>

VolumeCalls(amounts) ==
    IF amounts # <<>> THEN {<<f, Len(amounts)>> : f \in {"mean", "median"}} ELSE {}

VolumeLines(amounts) ==
    IF amounts # <<>> THEN << <<"volume", "stats">> >> ELSE <<>>

-----------------------------------------------------------------------------
(* What the environment can answer *)

\* a query returns its rows, or a response without "data", or requests raises
Outcomes == {"ok", "nodata", "raise"}

Latencies == {Num(1), NoneV, Bad}
Amounts == {Num(2), NoneV, Bad}

\* an unmatched message has no latency
LzMsgs == [matched : {TRUE}, latency : Latencies,
           chainIdOutbound : {Num(1)}, chainIdInbound : {Num(1)}]
          \cup [matched : {FALSE}, latency : {NoneV},
                chainIdOutbound : {Num(1)}, chainIdInbound : {Num(1)}]
AcrossMsgs == [matched : {TRUE}, latency : Latencies,
               chainIdOutbound : {Num(1), NoneV}, chainIdInbound : {Num(1)}]
Payloads == [amountOutbound : Amounts, amountInbound : {Num(2), NoneV}]
SentEvents == [chainId : {Num(1)}, dstEid : {Num(1), Num(11)},
               amountSentLD : {Num(2), NoneV}]
SentGuidEvents == [guid : {"g1", "g2"}, chainId : {Num(1)}, dstEid : {Num(2)}]
ReceivedGuidEvents == [guid : {"g1", "g2"}, chainId : {Num(2)}, srcEid : {Num(1)}]

-----------------------------------------------------------------------------
(* run_query *)

\* what run_query prints before it raises
QueryLines(sec, outcome) ==
    IF outcome = "nodata" THEN << <<sec, "log">>, <<sec, "log">> >> ELSE <<>>

QueryRaisesUnchecked(outcome) == outcome = "raise"

\* raise_for_status(), or the raise on a response without "data"
QueryRaises(outcome) == outcome # "ok"

\* the environment's answer to one query, within the fault budget
Answers(outcome) ==
    /\ outcome \in Outcomes
    /\ QueryRaises(outcome) => faults < MaxFaults

Issue(sec, q, outcome) ==
    /\ qlog' = Append(qlog, [sec |-> sec, q |-> q, outcome |-> outcome])
    /\ faults' = IF QueryRaises(outcome) THEN faults + 1 ELSE faults

-----------------------------------------------------------------------------
(* main() *)

event_types ==
    IF pipeline = "stargate"
    THEN <<"StargatePool_OFTSent", "StargatePool_OFTReceived",
           "EndpointV2_PacketSent", "EndpointV2_PacketDelivered">>
    ELSE <<"SpokePool_FilledRelay", "SpokePool_FilledV3Relay",
           "SpokePool_FundsDeposited", "CrosschainMessage">>

NextSectionSwapped(p, sec) ==
    IF p = "stargate"
    THEN CASE sec = "raw" -> "msgs"
           [] sec = "msgs" -> "volume"
           [] sec = "volume" -> "latency"
           [] sec = "latency" -> "routes"
           [] sec = "routes" -> "guid_sent"
           [] sec = "guid_sent" -> "guid_recv"
           [] sec = "guid_recv" -> "done"
    ELSE CASE sec = "raw" -> "msgs"
           [] sec = "msgs" -> "latency"
           [] sec = "latency" -> "routes"
           [] sec = "routes" -> "done"

\* the order of the sections in main()
NextSection(p, sec) ==
    IF p = "stargate"
    THEN CASE sec = "raw" -> "msgs"
           [] sec = "msgs" -> "volume"
           [] sec = "volume" -> "routes"
           [] sec = "routes" -> "latency"
           [] sec = "latency" -> "guid_sent"
           [] sec = "guid_sent" -> "guid_recv"
           [] sec = "guid_recv" -> "done"
    ELSE CASE sec = "raw" -> "msgs"
           [] sec = "msgs" -> "routes"
           [] sec = "routes" -> "latency"
           [] sec = "latency" -> "done"

Init ==
    /\ pipeline \in {"stargate", "across"}
    /\ pc = "start"
    /\ et = 1
    /\ out = <<>>
    /\ qlog = <<>>
    /\ matched_msgs = <<>>
    /\ loc = [sec |-> "none"]
    /\ calls = {}
    /\ faults = 0
    /\ arg = <<>>

\* print("Raw event counts:")
Start ==
    /\ pc = "start"
    /\ out' = Append(out, <<"raw", "head">>)
    /\ pc' = "raw"
    /\ UNCHANGED <<pipeline, et, qlog, matched_msgs, loc, calls, faults, arg>>

\* one iteration of the loop over event_types
RawCount ==
    /\ pc = "raw"
    /\ \E outcome \in Outcomes :
        /\ Answers(outcome)
        /\ Issue("raw", event_types[et], outcome)
        /\ IF QueryRaises(outcome)
           THEN out' = out \o QueryLines("raw", outcome) \o << <<"raw", "error">> >>
           ELSE out' = Append(out, <<"raw", "result">>)
    /\ et' = et + 1
    /\ pc' = IF et = Len(event_types) THEN NextSection(pipeline, "raw") ELSE "raw"
    /\ UNCHANGED <<pipeline, matched_msgs, loc, calls, arg>>

\* section 2: the CrosschainMessage query, outside any try
Msgs ==
    /\ pc = "msgs"
    /\ \E outcome \in Outcomes :
        /\ Answers(outcome)
        /\ Issue("msgs", "CrosschainMessage", outcome)
        /\ IF QueryRaises(outcome)
           THEN /\ out' = out \o QueryLines("msgs", outcome)
                /\ pc' = "aborted"
                /\ UNCHANGED matched_msgs
           ELSE \E msgs \in SeqsUpTo(IF pipeline = "stargate" THEN LzMsgs ELSE AcrossMsgs,
                                     MaxRows) :
                /\ matched_msgs' = IF pipeline = "stargate"
                                   THEN SelectSeq(msgs, LAMBDA m : m.matched)
                                   ELSE msgs
                /\ out' = out \o (IF pipeline = "stargate"
                                  THEN << <<"msgs", "result">>, <<"msgs", "result">> >>
                                  ELSE << <<"msgs", "result">> >>)
                /\ pc' = NextSection(pipeline, "msgs")
    /\ UNCHANGED <<pipeline, et, loc, calls, arg>>

\* stargate section 3: the AppPayload query and the volume statistics
Volume ==
    /\ pc = "volume"
    /\ \E outcome \in Outcomes :
        /\ Answers(outcome)
        /\ Issue("volume", "AppPayload", outcome)
        /\ IF QueryRaises(outcome)
           THEN /\ out' = out \o QueryLines("volume", outcome) \o << <<"volume", "error">> >>
                /\ calls' = calls
           ELSE \E stargate_payloads \in SeqsUpTo(Payloads, MaxRows) :
                LET ob == [i \in DOMAIN stargate_payloads |->
                               stargate_payloads[i].amountOutbound]
                    ib == [i \in DOMAIN stargate_payloads |->
                               stargate_payloads[i].amountInbound]
                IN IF CoerceRaises(ob) \/ CoerceRaises(ib)
                   THEN /\ out' = out \o << <<"volume", "result">>, <<"volume", "error">> >>
                        /\ calls' = calls
                   ELSE /\ out' = out \o << <<"volume", "result">> >>
                                      \o VolumeLines(Coerce(ob)) \o VolumeLines(Coerce(ib))
                        /\ calls' = calls \cup VolumeCalls(Coerce(ob))
                                          \cup VolumeCalls(Coerce(ib))
    /\ pc' = NextSection(pipeline, "volume")
    /\ UNCHANGED <<pipeline, et, matched_msgs, loc, arg>>

RankingLines(ranking) ==
    << <<"routes", "head">> >> \o [i \in DOMAIN ranking |-> <<"routes", "result">>]

\* stargate section 4: the OFTSent query, the aggregation and the ranking
Routes ==
    /\ pc = "routes"
    /\ pipeline = "stargate"
    /\ \E outcome \in Outcomes :
        /\ Answers(outcome)
        /\ Issue("routes", "StargatePool_OFTSent", outcome)
        /\ IF QueryRaises(outcome)
           THEN out' = out \o QueryLines("routes", outcome) \o << <<"routes", "error">> >>
           ELSE \E sent_events \in SeqsUpTo(SentEvents, MaxRows) :
                IF AggregateRaises(sent_events)
                THEN out' = Append(out, <<"routes", "error">>)
                ELSE out' = out \o RankingLines(Ranking(AggregateRoutes(sent_events)))
    /\ pc' = NextSection(pipeline, "routes")
    /\ UNCHANGED <<pipeline, et, matched_msgs, loc, calls, arg>>

\* across section 3: the ranking of the matched messages' routes, no query
Combos ==
    /\ pc = "routes"
    /\ pipeline = "across"
    /\ out' = out \o RankingLines(Ranking(CountCombos(matched_msgs)))
    /\ pc' = NextSection(pipeline, "routes")
    /\ UNCHANGED <<pipeline, et, qlog, matched_msgs, loc, calls, faults, arg>>

\* the latency statistics of matched_msgs, outside any try
Latency ==
    /\ pc = "latency"
    /\ LET F == [i \in DOMAIN matched_msgs |-> matched_msgs[i].latency]
       IN IF CoerceRaises(F)
          THEN /\ pc' = "aborted"
               /\ UNCHANGED <<out, calls>>
          ELSE /\ out' = out \o LatencyLines(Coerce(F))
               /\ calls' = calls \cup LatencyCalls(Coerce(F))
               /\ pc' = NextSection(pipeline, "latency")
    /\ UNCHANGED <<pipeline, et, qlog, matched_msgs, loc, faults, arg>>

\* stargate section 6, first half: the OFTSent query and sent_guids
GuidSent ==
    /\ pc = "guid_sent"
    /\ \E outcome \in Outcomes :
        /\ Answers(outcome)
        /\ Issue("guid", "StargatePool_OFTSent", outcome)
        /\ IF QueryRaises(outcome)
           THEN /\ out' = out \o QueryLines("guid", outcome) \o << <<"guid", "error">> >>
                /\ loc' = loc
                /\ pc' = "done"
           ELSE \E events \in SeqsUpTo(SentGuidEvents, MaxRows) :
                /\ out' = out
                /\ loc' = [sec |-> "guid_sent", sent_guids |-> SentGuids(events)]
                /\ pc' = NextSection(pipeline, "guid_sent")
    /\ UNCHANGED <<pipeline, et, matched_msgs, calls, arg>>

\* stargate section 6, second half: the OFTReceived query and the summary
GuidReceived ==
    /\ pc = "guid_recv"
    /\ \E outcome \in Outcomes :
        /\ Answers(outcome)
        /\ Issue("guid", "StargatePool_OFTReceived", outcome)
        /\ IF QueryRaises(outcome)
           THEN /\ out' = out \o QueryLines("guid", outcome) \o << <<"guid", "error">> >>
                /\ loc' = loc
           ELSE \E events \in SeqsUpTo(ReceivedGuidEvents, MaxRows) :
                /\ out' = out \o << <<"guid", "head">>, <<"guid", "result">> >>
                /\ loc' = [sec |-> "guid",
                           matchedCount |->
                               MatchSummary(loc.sent_guids,
                                            ReceivedGuids(events)).matchedCount]
    /\ pc' = NextSection(pipeline, "guid_recv")
    /\ UNCHANGED <<pipeline, et, matched_msgs, calls, arg>>

Terminated == pc \in {"done", "aborted"}

Next ==
    \/ Start
    \/ RawCount
    \/ Msgs
    \/ Volume
    \/ Routes
    \/ Combos
    \/ Latency
    \/ GuidSent
    \/ GuidReceived

Spec == Init /\ [][Next]_vars

-----------------------------------------------------------------------------
(* SpecFn: the code of the sections applied to every bounded input *)

\* latencies and amounts; the last one is an amount no float holds exactly
Values == {0, 1, 2, (2 ^ Mantissa) + 1}
FnSentEvents == [chainId : {Num(1), Num(11)}, dstEid : {Num(1), Num(11)},
                 amountSentLD : {Num(1), Num(2)}]
FnMsgs == [matched : {TRUE}, latency : {NoneV},
           chainIdOutbound : {Num(1), Num(11), NoneV}, chainIdInbound : {Num(1), Num(11)}]
FnSentGuidEvents == [guid : {"g1", "g2"}, chainId : {Num(1)}, dstEid : {Num(1), Num(2)}]
FnReceivedGuidEvents == [guid : {"g1", "g2"}, chainId : {Num(1)}, srcEid : {Num(1), Num(2)}]

InitFn ==
    /\ pipeline = "fn"
    /\ \/ pc \in {"latency", "volume"} /\ arg \in SeqsUpTo(Values, MaxLen)
       \/ pc = "routes" /\ arg \in SeqsUpTo(FnSentEvents, MaxLen)
       \/ pc = "combos" /\ arg \in SeqsUpTo(FnMsgs, MaxLen)
       \/ /\ pc = "match"
          /\ arg \in [sent : SeqsUpTo(FnSentGuidEvents, MaxStream),
                      received : SeqsUpTo(FnReceivedGuidEvents, MaxStream)]
    /\ et = 1
    /\ out = <<>>
    /\ qlog = <<>>
    /\ matched_msgs = <<>>
    /\ loc = [sec |-> "none"]
    /\ calls = {}
    /\ faults = 0

\* the latency block on the list arg
FnLatency ==
    /\ pipeline = "fn" /\ pc = "latency"
    /\ loc' = LatencyStats(arg)
    /\ calls' = LatencyCalls(arg)
    /\ out' = LatencyLines(arg)
    /\ pc' = "ret"
    /\ UNCHANGED <<pipeline, et, qlog, matched_msgs, faults, arg>>

\* one volume block on the list arg
FnVolume ==
    /\ pipeline = "fn" /\ pc = "volume"
    /\ loc' = [sec |-> "volume", stats |-> VolumeStats(arg)]
    /\ calls' = VolumeCalls(arg)
    /\ out' = VolumeLines(arg)
    /\ pc' = "ret"
    /\ UNCHANGED <<pipeline, et, qlog, matched_msgs, faults, arg>>

\* the aggregation loop and the ranking of stargate-stats on the events arg
FnRoutes ==
    /\ pipeline = "fn" /\ pc = "routes"
    /\ LET eid_combos == AggregateRoutes(arg)
       IN /\ loc' = [sec |-> "routes", combos |-> eid_combos,
                     ranking |-> Ranking(eid_combos)]
          /\ out' = RankingLines(Ranking(eid_combos))
    /\ pc' = "ret"
    /\ UNCHANGED <<pipeline, et, qlog, matched_msgs, calls, faults, arg>>

\* the counting loop and the ranking of across-stats on the messages arg
FnCombos ==
    /\ pipeline = "fn" /\ pc = "combos"
    /\ LET combo_counts == CountCombos(arg)
       IN /\ loc' = [sec |-> "combos", combos |-> combo_counts,
                     ranking |-> Ranking(combo_counts)]
          /\ out' = RankingLines(Ranking(combo_counts))
    /\ pc' = "ret"
    /\ UNCHANGED <<pipeline, et, qlog, matched_msgs, calls, faults, arg>>

\* the two dict comprehensions and the summary on the streams arg
FnMatch ==
    /\ pipeline = "fn" /\ pc = "match"
    /\ loc' = MatchSummary(SentGuids(arg.sent), ReceivedGuids(arg.received))
    /\ out' = << <<"guid", "head">>, <<"guid", "result">> >>
    /\ pc' = "ret"
    /\ UNCHANGED <<pipeline, et, qlog, matched_msgs, calls, faults, arg>>

NextFn ==
    \/ FnLatency
    \/ FnVolume
    \/ FnRoutes
    \/ FnCombos
    \/ FnMatch

SpecFn == InitFn /\ [][NextFn]_vars

-----------------------------------------------------------------------------
(* Properties of the aggregation, ranking, matching and statistics code,   *)
(* checked under SpecFn                                                    *)

Returned(sec) == pipeline = "fn" /\ pc = "ret" /\ loc.sec = sec

Range(f) == {f[i] : i \in DOMAIN f}

ExpectedLabel(src, dst) == Str(src) \o <<45, 62>> \o Str(dst)

\* the (source, destination) pair of a record of either pipeline
PairOf(r) == IF "dstEid" \in DOMAIN r THEN <<r.chainId, r.dstEid>>
             ELSE <<r.chainIdOutbound, r.chainIdInbound>>

With(events, P) == SelectSeq(events, LAMBDA e : PairOf(e) = P)

VolumeOf(events) == Sum([i \in DOMAIN events |-> events[i].amountSentLD.v])

CountsSum(d) == Sum([i \in DOMAIN d |-> d[i].count])

\* C2: the GUID matching step reports matchedCount <= min(sentCount,
\* receivedCount) and matchRate = matchedCount / max(sentCount, 1) * 100,
\* which lies in [0, 100] and is 0 when the sent stream is empty; its
\* denominator is never zero.
C2_MatchRateBounded ==
    Returned("match") =>
        /\ loc.matchedCount <= loc.sentCount
        /\ loc.matchedCount <= loc.receivedCount
        /\ loc.matchRate.den > 0
        /\ FracEq(loc.matchRate,
                  Frac(loc.matchedCount * 100,
                       IF loc.sentCount >= 1 THEN loc.sentCount ELSE 1))
        /\ FracLeq(Frac(0, 1), loc.matchRate)
        /\ FracLeq(loc.matchRate, Frac(100, 1))
        /\ (arg.sent = <<>> => loc.matchRate.num = 0)

\* C2 witness: an empty sent stream matched against a non-empty received one
C2_Witness ==
    /\ Returned("match")
    /\ arg.sent = <<>>
    /\ Len(arg.received) = MaxStream
    /\ loc.receivedCount = 2
    /\ loc.matchRate.num = 0

\* C3: route aggregation yields exactly one entry per (source, destination)
\* pair of the input, keyed by the pair's label, whose count is the number
\* of events with that pair and whose volume is the sum of their amounts;
\* the counts add up to the number of events, the volumes to the total
\* amount, and an empty input yields an empty mapping.
C3_AggregationExact ==
    (Returned("routes") \/ Returned("combos")) =>
        LET d == loc.combos
            pairs == {PairOf(arg[i]) : i \in DOMAIN arg}
        IN /\ Len(d) = Cardinality(pairs)
           /\ \A i, j \in DOMAIN d : d[i].key = d[j].key => i = j
           /\ \A P \in pairs : \E i \in DOMAIN d :
                 /\ d[i].key = ExpectedLabel(P[1], P[2])
                 /\ d[i].count = Len(With(arg, P))
                 /\ loc.sec = "routes" => d[i].volume = VolumeOf(With(arg, P))
           /\ CountsSum(d) = Len(arg)
           /\ loc.sec = "routes" =>
                 Sum([i \in DOMAIN d |-> d[i].volume]) = VolumeOf(arg)
           /\ arg = <<>> => d = <<>>

\* C3 witness: three events on two routes, one route taken twice, the routes
\* 1->11 and 11->1 among them
C3_Witness ==
    /\ Returned("routes")
    /\ Len(arg) = 3
    /\ Len(loc.combos) = 2
    /\ \E i, j \in DOMAIN loc.combos :
          /\ loc.combos[i].key = <<49, 45, 62, 49, 49>>
          /\ loc.combos[j].key = <<49, 49, 45, 62, 49>>
          /\ loc.combos[i].count = 2
          /\ loc.combos[i].volume = 3

\* C5: on a non-empty list V of integers the statistics satisfy
\* min <= mean <= max and min <= median <= max, and for a singleton [x],
\* count = 1, sum = x and mean = median = min = max = x.
C5_StatsWithinRange ==
    /\ (Returned("latency") /\ arg # <<>>) =>
          LET mn == Frac(loc.min[1], 1)
              mx == Frac(loc.max[1], 1)
          IN /\ loc.min[1] \in Range(arg) /\ \A i \in DOMAIN arg : loc.min[1] <= arg[i]
             /\ loc.max[1] \in Range(arg) /\ \A i \in DOMAIN arg : loc.max[1] >= arg[i]
             /\ FracLeq(mn, loc.mean[1]) /\ FracLeq(loc.mean[1], mx)
             /\ FracLeq(mn, loc.median[1]) /\ FracLeq(loc.median[1], mx)
             /\ Len(arg) = 1 =>
                   /\ loc.count = 1
                   /\ FracEq(loc.mean[1], Frac(arg[1], 1))
                   /\ FracEq(loc.median[1], Frac(arg[1], 1))
                   /\ loc.min[1] = arg[1] /\ loc.max[1] = arg[1]
    /\ (Returned("volume") /\ arg # <<>>) =>
          LET st == loc.stats[1]
              mn == Frac(Min(arg), 1)
              mx == Frac(Max(arg), 1)
          IN /\ FracLeq(mn, st.mean) /\ FracLeq(st.mean, mx)
             /\ FracLeq(mn, st.median) /\ FracLeq(st.median, mx)
             /\ Len(arg) = 1 =>
                   /\ st.count = 1 /\ st.total = arg[1]
                   /\ FracEq(st.mean, Frac(arg[1], 1))
                   /\ FracEq(st.median, Frac(arg[1], 1))

\* C7: the ranking lists every aggregated route exactly once, in
\* non-increasing order of count, and routes with equal count keep their
\* order of first appearance in the input.
C7_RankingStable ==
    (Returned("routes") \/ Returned("combos")) =>
        LET d == loc.combos
            r == loc.ranking
            First(k) == CHOOSE i \in DOMAIN arg :
                            /\ ExpectedLabel(PairOf(arg[i])[1], PairOf(arg[i])[2]) = k
                            /\ \A j \in 1..(i - 1) :
                                  ExpectedLabel(PairOf(arg[j])[1], PairOf(arg[j])[2]) # k
        IN /\ Len(r) = Len(d)
           /\ Range(r) = Range(d)
           /\ \A i, j \in DOMAIN r : i < j =>
                 /\ r[i].count >= r[j].count
                 /\ r[i].count = r[j].count => First(r[i].key) < First(r[j].key)

\* C7 witness: a ranking that moves a route up and has a tie
C7_Witness ==
    /\ Returned("routes")
    /\ Len(loc.ranking) = 3
    /\ loc.ranking # loc.combos
    /\ loc.ranking[2].count = loc.ranking[3].count

\* C8: after a stream is processed the guid-to-route map has exactly one
\* entry per distinct guid, holding the route label of the guid's last
\* record in stream order, so sentCount and receivedCount are the numbers
\* of distinct guids of their streams, not the numbers of events.
C8_LastWriteWins ==
    Returned("match") =>
        LET LastOf(events, g) == CHOOSE i \in DOMAIN events :
                                    /\ events[i].guid = g
                                    /\ \A j \in DOMAIN events :
                                          events[j].guid = g => j <= i
            OnePerGuid(d, events, Label(_)) ==
                /\ Keys(d) = {events[i].guid : i \in DOMAIN events}
                /\ Len(d) = Cardinality(Keys(d))
                /\ \A i \in DOMAIN d : d[i].val = Label(events[LastOf(events, d[i].key)])
        IN /\ OnePerGuid(loc.sent_guids, arg.sent,
                         LAMBDA e : ExpectedLabel(e.chainId, e.dstEid))
           /\ OnePerGuid(loc.received_guids, arg.received,
                         LAMBDA e : ExpectedLabel(e.srcEid, e.chainId))
           /\ loc.sentCount = Cardinality({arg.sent[i].guid : i \in DOMAIN arg.sent})
           /\ loc.receivedCount =
                 Cardinality({arg.received[i].guid : i \in DOMAIN arg.received})
           /\ loc.matchedCount =
                 Cardinality({arg.sent[i].guid : i \in DOMAIN arg.sent}
                             \cap {arg.received[i].guid : i \in DOMAIN arg.received})

\* C8 witness: a guid sent twice with two different routes
C8_Witness ==
    /\ Returned("match")
    /\ Len(arg.sent) = 3
    /\ loc.sentCount = 2
    /\ arg.sent[1].guid = arg.sent[3].guid
    /\ arg.sent[1].dstEid # arg.sent[3].dstEid
    /\ loc.sent_guids[1].val = <<49, 45, 62, 50>>
    /\ arg.sent[1].dstEid = Num(1)

-----------------------------------------------------------------------------
(* Properties of main(), checked under Spec *)

Sections == IF pipeline = "stargate"
            THEN {"raw", "msgs", "volume", "routes", "latency", "guid"}
            ELSE {"raw", "msgs", "routes", "latency"}

\* the place of a section in the report
Rank(sec) == CASE sec = "raw" -> 1
               [] sec = "msgs" -> 2
               [] sec = "volume" -> 3
               [] sec = "routes" -> 4
               [] sec = "latency" -> 5
               [] sec = "guid" -> 6

\* section T reads the rows section S queried
Consumes(T, S) ==
    /\ S = "msgs"
    /\ T = "latency" \/ (pipeline = "across" /\ T = "routes")

Failed(S) == \E i \in DOMAIN qlog : qlog[i].sec = S /\ qlog[i].outcome # "ok"
Queried(S) == \E i \in DOMAIN qlog : qlog[i].sec = S
Printed(S, kind) == \E i \in DOMAIN out : out[i] = <<S, kind>>
Rendered(S) == \E i \in DOMAIN out : out[i][1] = S /\ out[i][2] # "log"
Lines(S, kinds) == SelectSeq(out, LAMBDA l : l[1] = S /\ l[2] \in kinds)

\* C1: when the query of a section S fails, the run still reaches and
\* renders every other section that does not consume S's data (stated of
\* the runs in which every latency is numeric or null).
C1_FailureContained ==
    (Terminated /\ \A i \in DOMAIN matched_msgs : matched_msgs[i].latency # Bad) =>
        \A S \in Sections, T \in Sections :
            (S # T /\ Failed(S) /\ ~Consumes(T, S)) => Rendered(T)

\* C4: a record whose numeric field is absent or non-numeric is left out of
\* the statistic and never aborts its section or the run: the run stops
\* early only on a failed query, and the volume and route sections print an
\* error note only when their own query failed.
C4_DecodeFailureExcluded ==
    /\ pc = "aborted" => qlog[Len(qlog)].outcome # "ok"
    /\ \A S \in {"volume", "routes"} : Printed(S, "error") => Failed(S)

\* C6: mean, median, min and max are evaluated on non-empty lists only and
\* the sample standard deviation on lists of at least two values; an empty
\* latency list renders the no-data note and a single latency renders
\* 'N/A' for the standard deviation.
C6_StatisticsInDomain ==
    /\ \A c \in calls : c[2] >= 1 /\ (c[1] = "stdev" => c[2] >= 2)
    /\ Rendered("latency") =>
          LET n == Len(Coerce([i \in DOMAIN matched_msgs |-> matched_msgs[i].latency]))
          IN /\ n = 0 => Lines("latency", {"nodata", "stats", "stdev", "na"})
                            = << <<"latency", "nodata">> >>
             /\ n = 1 => /\ Lines("latency", {"nodata", "stats", "stdev", "na"})
                               = << <<"latency", "stats">>, <<"latency", "na">> >>
                         /\ <<"mean", 1>> \in calls
             /\ n >= 2 => /\ Lines("latency", {"nodata", "stats", "stdev", "na"})
                                = << <<"latency", "stats">>, <<"latency", "stdev">> >>
                          /\ <<"stdev", n>> \in calls

\* C6 witness: a run whose only latency was rendered with 'N/A'
C6_Witness ==
    /\ pc = "done"
    /\ Len(matched_msgs) = 2
    /\ Printed("latency", "na")
    /\ <<"min", 1>> \in calls

\* C9: the sections run in the fixed order raw counts, matched messages,
\* volume statistics, route ranking, latency statistics, GUID matching: the
\* queries are issued in that order, no line of a section is printed before
\* a line of an earlier section, and a section prints nothing before its
\* own query was issued.
C9_SectionsInOrder ==
    /\ \A i \in 1..(Len(out) - 1) : Rank(out[i][1]) <= Rank(out[i + 1][1])
    /\ \A i \in 1..(Len(qlog) - 1) : Rank(qlog[i].sec) <= Rank(qlog[i + 1].sec)
    /\ \A S \in Sections :
          (Printed(S, "result") \/ Printed(S, "error")) =>
              (Queried(S) \/ (pipeline = "across" /\ S = "routes"))
    /\ \A S \in Sections, T \in Sections :
          (Rank(S) < Rank(T) /\ (Rendered(T) \/ Queried(T))) => Rendered(S)

\* C9 witness: a finished stargate run in which all six sections printed
C9_Witness ==
    /\ pipeline = "stargate"
    /\ pc = "done"
    /\ \A S \in Sections : Rendered(S)
    /\ Printed("volume", "stats") /\ Printed("guid", "result")

\* C10: the GUID section prints its summary only if both of its queries
\* succeeded and otherwise exactly one error note and no summary; the
\* OFTReceived query is issued only after the OFTSent query succeeded, and
\* neither query is issued twice.
C10_GuidAllOrNothing ==
    LET gq == SelectSeq(qlog, LAMBDA e : e.sec = "guid")
        summary == Lines("guid", {"head", "result"})
        errors == Lines("guid", {"error"})
    IN /\ Len(gq) <= 2
       /\ Len(gq) >= 1 => gq[1].q = "StargatePool_OFTSent"
       /\ Len(gq) = 2 => gq[1].outcome = "ok" /\ gq[2].q = "StargatePool_OFTReceived"
       /\ summary # <<>> =>
             /\ Len(gq) = 2 /\ gq[2].outcome = "ok"
             /\ errors = <<>>
       /\ (\E i \in DOMAIN gq : gq[i].outcome # "ok") =>
             /\ Len(errors) = 1
             /\ summary = <<>>
       /\ (pipeline = "stargate" /\ pc = "done"
           /\ \A i \in DOMAIN gq : gq[i].outcome = "ok") => summary # <<>>

\* C10 witness: the OFTSent query succeeded, the OFTReceived query failed
C10_Witness ==
    /\ pc = "done"
    /\ \E i \in DOMAIN qlog : /\ qlog[i].sec = "guid"
                              /\ qlog[i].q = "StargatePool_OFTReceived"
                              /\ qlog[i].outcome = "nodata"
    /\ Printed("guid", "error")
    /\ loc.sec = "guid_sent" /\ Len(loc.sent_guids) = 2

====
